---- MODULE Spec2Model ----
(***************************************************************************)
(* GeoRabbit: the quadtree tile index (robbit/models.py), the rate-limited *)
(* Flickr client (robbit/flickr.py) and the level-by-level scan            *)
(* (robbit/management/commands/scan_flickr.py).                            *)
(*                                                                         *)
(* The specifications of this module share its variables:                 *)
(*   SpecTile  Tile.bbox and Tile.need_children applied to tiles of any    *)
(*             depth 0..MAX_DEPTH;                                         *)
(*   SpecSplit need_children statement by statement, with interruptions;   *)
(*   SpecRate  Flickr._generate_keys and Flickr.call run by concurrent     *)
(*             threads against a clock;                                    *)
(*   SpecCall  the retry loop of one Flickr.call;                          *)
(*   Spec      scan_flickr: handle, handle_level and handle_tile run by    *)
(*             the pool's workers against the store;                       *)
(*   SpecClean clean_tiles run on any store.                               *)
(* The variables a specification does not use keep their initial value.    *)
(***************************************************************************)
EXTENDS Integers, Sequences, FiniteSets, TLC

VARIABLES
    tiles,            \* the Tile table: row id (primary key) -> row
    lastCall,         \* SpecTile: the last need_children call and its result
    images,           \* the Image table: the committed rows
    now,              \* SpecRate: the clock, in seconds
    key_gen_running,  \* Flickr.key_gen_running
    key_gen_thread,   \* the thread running Flickr._generate_keys
    keys_queue,       \* Flickr.keys_queue, a Queue of maxsize len(keys)
    callers,          \* the threads calling Flickr.call
    sent,             \* the requests issued by session.get: key and time
    scan,             \* scan_flickr: Command.handle and handle_level
    tasks,            \* the handle_tile calls in the pool: tile id -> locals
    insert_lock,      \* Command.insert_lock: the tile whose task holds it
    cleans            \* SpecClean: the runs of clean_tiles and the store they began on

storeVars == <<tiles, images>>
rateVars == <<now, key_gen_running, key_gen_thread, keys_queue, callers, sent>>
scanVars == <<scan, tasks, insert_lock>>
vars == <<tiles, lastCall, images, now, key_gen_running, key_gen_thread,
          keys_queue, callers, sent, scan, tasks, insert_lock, cleans>>

(***************************************************************************)
(* Tile (robbit/models.py)                                                 *)
(***************************************************************************)
MAX_DEPTH == 19

TO_PROBE == "to-probe"
CONTAINED == "contained"
SPLIT == "split"

STATUSES == {TO_PROBE, CONTAINED, SPLIT}

\* Tile.parent is nullable: NoTile stands for NULL.
NoTile == 0

RECURSIVE Pow2(_)
Pow2(n) == IF n <= 0 THEN 1 ELSE 2 * Pow2(n - 1)

(* Coordinates are degrees.  Tile.bbox computes them in binary floating    *)
(* point from 360.0 / 2.0**depth: for depth <= MAX_DEPTH every value is a  *)
(* multiple of 2^-MAX_DEPTH degrees below 2^8, so the float arithmetic is  *)
(* exact and a coordinate is represented here by the integer               *)
(* degrees * Scale.                                                        *)
Scale == Pow2(MAX_DEPTH)

Deg(n) == n * Scale

Coords(x, y) == [x |-> x, y |-> y]

BBox(c1, c2) == [c1 |-> c1, c2 |-> c2]

\* A mistaken Tile.bbox: the latitude step taken from the longitude span.
bbox_square(t) ==
    LET splits == Pow2(t.depth)
        dx == Deg(360) \div splits
    IN  BBox(Coords(Deg(-180) + t.x * dx, Deg(-90) + t.y * dx),
             Coords(Deg(-180) + (t.x + 1) * dx, Deg(-90) + (t.y + 1) * dx))

bbox(t) ==
    LET splits == Pow2(t.depth)
        dx == Deg(360) \div splits
        dy == Deg(180) \div splits
    IN  BBox(Coords(Deg(-180) + t.x * dx, Deg(-90) + t.y * dy),
             Coords(Deg(-180) + (t.x + 1) * dx, Deg(-90) + (t.y + 1) * dy))

\* Tile(depth=, x=, y=, parent=): status takes the field's default.
Tile(depth, x, y, parent) ==
    [depth |-> depth, x |-> x, y |-> y, status |-> TO_PROBE, parent |-> parent]

\* The rows need_children builds: a mistaken version repeating a corner.
children_repeated(t, id) ==
    LET depth == t.depth + 1
        x2 == t.x * 2
        y2 == t.y * 2
    IN  << Tile(depth, x2, y2, id),
           Tile(depth, x2 + 1, y2, id),
           Tile(depth, x2 + 1, y2, id),
           Tile(depth, x2, y2 + 1, id) >>

\* The four rows need_children hands to bulk_create, in its order.
children(t, id) ==
    LET depth == t.depth + 1
        x2 == t.x * 2
        y2 == t.y * 2
    IN  << Tile(depth, x2, y2, id),
           Tile(depth, x2 + 1, y2, id),
           Tile(depth, x2 + 1, y2 + 1, id),
           Tile(depth, x2, y2 + 1, id) >>

\* Tile.objects.bulk_create(rows): the rows get the next primary keys.
tile_bulk_create(store, rows) == store \o rows

\* self.save() of a tile whose status was set: the row is written back.
tile_save(store, id, status) == [store EXCEPT ![id].status = status]

\* A mistaken depth test: MAX_DEPTH is never found to be reached.
max_depth_never(t) == FALSE

\* need_children, "depth = self.depth + 1; if depth > self.MAX_DEPTH: return
\* False": the tile may not be split.
max_depth_reached(t) == t.depth + 1 > MAX_DEPTH

\* A mistaken need_children: no check of MAX_DEPTH.
need_children_unbounded(store, id) ==
    [ret |-> TRUE,
     store |-> tile_save(tile_bulk_create(store, children(store[id], id)), id, SPLIT)]

\* need_children run to its return: the value returned and the table after.
need_children(store, id) ==
    LET depth == store[id].depth + 1
    IN  IF depth > MAX_DEPTH
        THEN [ret |-> FALSE, store |-> store]
        ELSE [ret |-> TRUE,
              store |-> tile_save(tile_bulk_create(store, children(store[id], id)),
                                  id, SPLIT)]

\* mark_done: the tile is completely contained.
mark_done(store, id) == tile_save(store, id, CONTAINED)

TileIds(store) == 1..Len(store)

ChildrenOf(store, id) == {c \in TileIds(store) : store[c].parent = id}

(***************************************************************************)
(* SpecTile: need_children on tiles of every depth                         *)
(***************************************************************************)
\* The grid coordinates tried at each depth: the MaxCoord + 1 lowest and
\* highest columns and rows of the 2^depth.
MaxCoord == 1

\* need_children is applied while the table has at most this many rows.
MaxTileRows == 5

GridSamples(depth) ==
    LET n == Pow2(depth)
    IN  {c \in (0..MaxCoord) \cup ((n - 1 - MaxCoord)..(n - 1)) : 0 <= c /\ c < n}

NoCall == [id |-> NoTile, ret |-> FALSE]

\* clean_tiles has not been run.
NoClean == [n |-> 0, first |-> << >>]

\* Flickr.__init__: no key queued, the generator thread not started.
RateIdle ==
    /\ now = 0
    /\ key_gen_running = FALSE
    /\ key_gen_thread = [pc |-> "new", wake |-> 0, i |-> 1]
    /\ keys_queue = << >>
    /\ callers = << >>
    /\ sent = << >>

\* No scan_flickr command is running.
ScanIdle ==
    /\ scan = [pc |-> "none"]
    /\ tasks = << >>
    /\ insert_lock = NoTile

InitTile ==
    /\ RateIdle
    /\ ScanIdle
    /\ \E depth \in 0..MAX_DEPTH :
         \E x \in GridSamples(depth), y \in GridSamples(depth) :
            tiles = << Tile(depth, x, y, NoTile) >>
    /\ lastCall = NoCall
    /\ images = {}
    /\ cleans = NoClean

\* tile.need_children() on a to-probe tile of the table.
CallNeedChildren(id) ==
    /\ id \in TileIds(tiles)
    /\ tiles[id].status = TO_PROBE
    /\ Len(tiles) <= MaxTileRows
    /\ lastCall.id # id
    /\ LET r == need_children(tiles, id)
       IN  /\ tiles' = r.store
           /\ lastCall' = [id |-> id, ret |-> r.ret]
    /\ UNCHANGED <<images, cleans>>
    /\ UNCHANGED rateVars
    /\ UNCHANGED scanVars

NextTile == \E id \in 1..(MaxTileRows + 4) : CallNeedChildren(id)

SpecTile == InitTile /\ [][NextTile]_vars

(***************************************************************************)
(* SpecSplit: need_children statement by statement, as the scans call it   *)
(* on to-probe tiles whose total is over the threshold; a scan may end     *)
(* between the two writes, and a later scan finds the tile to-probe.       *)
(* lastCall.id is the tile of the call in progress.                        *)
(***************************************************************************)
\* Tile.objects.bulk_create of the 4 children.
SplitCreate(id) ==
    /\ lastCall.id = NoTile
    /\ id \in TileIds(tiles)
    /\ tiles[id].status = TO_PROBE
    /\ tiles[id].depth + 1 <= MAX_DEPTH
    /\ Len(tiles) <= MaxTileRows
    /\ tiles' = tile_bulk_create(tiles, children(tiles[id], id))
    /\ lastCall' = [id |-> id, ret |-> FALSE]
    /\ UNCHANGED <<images, cleans>>
    /\ UNCHANGED rateVars
    /\ UNCHANGED scanVars

\* self.status = Tile.SPLIT; self.save(); return True
SplitSave ==
    /\ lastCall.id # NoTile
    /\ tiles' = tile_save(tiles, lastCall.id, SPLIT)
    /\ lastCall' = NoCall
    /\ UNCHANGED <<images, cleans>>
    /\ UNCHANGED rateVars
    /\ UNCHANGED scanVars

\* The scan ends before save() (the process is killed, or the statement
\* fails): the writes made so far stay.
Interrupt ==
    /\ lastCall.id # NoTile
    /\ lastCall' = NoCall
    /\ UNCHANGED <<tiles, images, cleans>>
    /\ UNCHANGED rateVars
    /\ UNCHANGED scanVars

NextSplit ==
    \/ \E id \in 1..(MaxTileRows + 4) : SplitCreate(id)
    \/ SplitSave
    \/ Interrupt

SpecSplit == InitTile /\ [][NextSplit]_vars

\* C19: after any sequence of scans, interrupted and resumed ones included,
\* no two tiles of the store have the same (depth, x, y), and every tile has
\* at most 4 children.
C19_NoDuplicateTiles ==
    /\ \A a, b \in TileIds(tiles) :
          /\ tiles[a].depth = tiles[b].depth
          /\ tiles[a].x = tiles[b].x
          /\ tiles[a].y = tiles[b].y
          => a = b
    /\ \A t \in TileIds(tiles) : Cardinality(ChildrenOf(tiles, t)) <= 4

(***************************************************************************)
(* Claims about Tile, checked under SpecTile                               *)
(***************************************************************************)
\* The step is a need_children call (CallNeedChildren changes lastCall).
IsCall == lastCall' # lastCall

\* C7: need_children called on a to-probe tile of depth d < MAX_DEPTH at
\* (x, y) returns true, appends exactly the 4 rows (d+1, 2x, 2y),
\* (d+1, 2x+1, 2y), (d+1, 2x+1, 2y+1), (d+1, 2x, 2y+1), each to-probe with
\* the tile as parent, and sets the tile's status to split, leaving every
\* other row as it was; called on a tile at MAX_DEPTH it returns false and
\* leaves the table as it was.
C7_NeedChildrenContract ==
    [][IsCall =>
        LET id == lastCall'.id
            t == tiles[id]
            n == Len(tiles)
            row(dx, dy) == [depth |-> t.depth + 1, x |-> 2 * t.x + dx,
                            y |-> 2 * t.y + dy, status |-> "to-probe",
                            parent |-> id]
        IN  IF t.depth < 19
            THEN /\ lastCall'.ret = TRUE
                 /\ Len(tiles') = n + 4
                 /\ tiles'[n + 1] = row(0, 0)
                 /\ tiles'[n + 2] = row(1, 0)
                 /\ tiles'[n + 3] = row(1, 1)
                 /\ tiles'[n + 4] = row(0, 1)
                 /\ tiles'[id] = [t EXCEPT !.status = "split"]
                 /\ \A o \in 1..n : o # id => tiles'[o] = tiles[o]
            ELSE /\ lastCall'.ret = FALSE
                 /\ tiles' = tiles]_vars

\* C7 witness: a tile of depth MAX_DEPTH - 1 was split into 4 and the call on
\* one of its children, at MAX_DEPTH, returned false.
C7_Witness ==
    /\ Len(tiles) = 5
    /\ tiles[1].status = SPLIT
    /\ tiles[1].depth = MAX_DEPTH - 1
    /\ lastCall.id \in 2..5
    /\ lastCall.ret = FALSE
    /\ tiles[lastCall.id].status = TO_PROBE

\* The tile lies on the grid of its depth.
OnGrid(t) ==
    /\ 0 <= t.x /\ t.x < Pow2(t.depth)
    /\ 0 <= t.y /\ t.y < Pow2(t.depth)

\* Rectangle inner lies within rectangle outer.
Within(inner, outer) ==
    /\ outer.c1.x <= inner.c1.x /\ inner.c2.x <= outer.c2.x
    /\ outer.c1.y <= inner.c1.y /\ inner.c2.y <= outer.c2.y

\* The rectangles boxes[k], k in kids, cover the rectangle whole exactly
\* once: each lies within it, and every cell of the grid drawn through all
\* their edges that lies within whole lies within exactly one of them, so
\* that nothing of whole is left out and no two of them share an interior.
ExactCover(whole, kids, boxes) ==
    LET xs == {whole.c1.x, whole.c2.x}
                \cup {boxes[k].c1.x : k \in kids} \cup {boxes[k].c2.x : k \in kids}
        ys == {whole.c1.y, whole.c2.y}
                \cup {boxes[k].c1.y : k \in kids} \cup {boxes[k].c2.y : k \in kids}
        spans(s) == {p \in s \X s :
                        /\ p[1] < p[2]
                        /\ ~ \E m \in s : p[1] < m /\ m < p[2]}
        cell(px, py) == BBox(Coords(px[1], py[1]), Coords(px[2], py[2]))
    IN  /\ \A k \in kids : Within(boxes[k], whole)
        /\ \A px \in spans(xs), py \in spans(ys) :
              Within(cell(px, py), whole)
                 => Cardinality({k \in kids : Within(cell(px, py), boxes[k])}) = 1

\* C8: the bounding boxes of the 4 children need_children generated for a
\* tile on the grid quarter the tile's bounding box exactly: together they
\* cover it, and no two of them share more than a boundary.
C8_ChildrenQuarterParent ==
    \A id \in TileIds(tiles) :
        ChildrenOf(tiles, id) # {} =>
            /\ OnGrid(tiles[id])
            /\ Cardinality(ChildrenOf(tiles, id)) = 4
            /\ ExactCover(bbox(tiles[id]), ChildrenOf(tiles, id),
                          [k \in ChildrenOf(tiles, id) |-> bbox(tiles[k])])

\* C8 witness: a tile of the deepest splittable level, away from the
\* grid's origin, has its 4 children.
C8_Witness ==
    /\ tiles[1].depth = MAX_DEPTH - 1
    /\ tiles[1].x = Pow2(MAX_DEPTH - 1) - 1
    /\ tiles[1].y = 1
    /\ Cardinality(ChildrenOf(tiles, 1)) = 4

Box(x1, y1, x2, y2) == BBox(Coords(Deg(x1), Deg(y1)), Coords(Deg(x2), Deg(y2)))

\* The bounding boxes of the children of tile id, in creation order.
ChildBoxes(id) ==
    LET kids == ChildrenOf(tiles, id)
        first == CHOOSE k \in kids : \A o \in kids : k <= o
    IN  [i \in 1..Cardinality(kids) |-> bbox(tiles[first + i - 1])]

\* need_children was called on tile id and split it.
WasSplit(id) == lastCall = [id |-> id, ret |-> TRUE]

\* C9 as stated: the depth-0 tile (0, 0) spans (-180,-90)-(0,0), and after
\* need_children its children span (-180,-90)-(-90,-45), (-90,-90)-(0,-45),
\* (-90,-45)-(0,0), (-180,-45)-(-90,0) and its status is split.
C9_AsStated ==
    \A id \in TileIds(tiles) :
        (tiles[id].depth = 0 /\ tiles[id].x = 0 /\ tiles[id].y = 0) =>
            /\ bbox(tiles[id]) = Box(-180, -90, 0, 0)
            /\ WasSplit(id) =>
                  /\ ChildBoxes(id) = << Box(-180, -90, -90, -45),
                                         Box(-90, -90, 0, -45),
                                         Box(-90, -45, 0, 0),
                                         Box(-180, -45, -90, 0) >>
                  /\ tiles[id].status = SPLIT

\* C9 amended: the depth-0 tile (0, 0) spans the whole (-180,-90)-(180,90)
\* and its children, in creation order, span (-180,-90)-(0,0),
\* (0,-90)-(180,0), (0,0)-(180,90), (-180,0)-(0,90); the boxes of the claim
\* are those of the depth-1 tile (0, 0) and of its children at depth 2.  In
\* both cases the status after need_children is split.
C9_RootBoxes ==
    \A id \in TileIds(tiles) :
        /\ (tiles[id].depth = 0 /\ tiles[id].x = 0 /\ tiles[id].y = 0) =>
            /\ bbox(tiles[id]) = Box(-180, -90, 180, 90)
            /\ WasSplit(id) =>
                  /\ ChildBoxes(id) = << Box(-180, -90, 0, 0),
                                         Box(0, -90, 180, 0),
                                         Box(0, 0, 180, 90),
                                         Box(-180, 0, 0, 90) >>
                  /\ tiles[id].status = SPLIT
        /\ (tiles[id].depth = 1 /\ tiles[id].x = 0 /\ tiles[id].y = 0) =>
            /\ bbox(tiles[id]) = Box(-180, -90, 0, 0)
            /\ WasSplit(id) =>
                  /\ ChildBoxes(id) = << Box(-180, -90, -90, -45),
                                         Box(-90, -90, 0, -45),
                                         Box(-90, -45, 0, 0),
                                         Box(-180, -45, -90, 0) >>
                  /\ tiles[id].status = SPLIT

\* C9 witness: need_children has split the depth-0 tile.
C9_Witness ==
    /\ tiles[1].depth = 0
    /\ WasSplit(1)
    /\ Len(tiles) = 5

(***************************************************************************)
(* Flickr (robbit/flickr.py)                                               *)
(***************************************************************************)
\* Seconds.
RATE_LIMIT == 1
RETRY_WAIT == 10

\* for _ in range(0, 100)
MAX_ATTEMPTS == 100

\* The number of API keys, len(self.keys).
NumKeys == 1

\* The threads that call Flickr.call.
NumCallers == 2

\* The clock stops at MaxTime; at most MaxRequests requests are issued.
MaxTime == 12
MaxRequests == 3

keys == [i \in 1..NumKeys |-> i]

keys_count == Len(keys)

Callers == 1..NumCallers

\* The status codes of a response: success, the transient server error and
\* one other failure.
StatusCodes == {200, 500, 403}

NoKey == 0

IdleCaller == [pc |-> "idle", key |-> NoKey, attempt |-> 0, wake |-> 0,
               ret |-> "none"]

nonRateVars == <<tiles, images, lastCall, scan, tasks, insert_lock, cleans>>

InitRate ==
    /\ tiles = << >>
    /\ images = {}
    /\ lastCall = NoCall
    /\ cleans = NoClean
    /\ ScanIdle
    /\ now = 0
    /\ key_gen_running = FALSE
    /\ key_gen_thread = [pc |-> "new", wake |-> 0, i |-> 1]
    /\ keys_queue = << >>
    /\ callers = [c \in Callers |-> IdleCaller]
    /\ sent = << >>

\* start_generating_keys: the flag is set and the thread started.
start_generating_keys ==
    /\ key_gen_thread.pc = "new"
    /\ key_gen_running' = TRUE
    /\ key_gen_thread' = [key_gen_thread EXCEPT !.pc = "while"]
    /\ UNCHANGED <<now, keys_queue, callers, sent>>
    /\ UNCHANGED nonRateVars

\* stop_generating_keys: the flag is cleared; Queue.empty() only reports
\* whether the queue is empty and changes nothing.
stop_generating_keys ==
    /\ key_gen_running
    /\ key_gen_running' = FALSE
    /\ UNCHANGED <<now, key_gen_thread, keys_queue, callers, sent>>
    /\ UNCHANGED nonRateVars

\* _generate_keys, "while self.key_gen_running": sleep(RATE_LIMIT) begins,
\* or the thread ends.
GenWhile ==
    /\ key_gen_thread.pc = "while"
    /\ key_gen_thread' =
          IF key_gen_running
          THEN [pc |-> "sleep", wake |-> now + RATE_LIMIT, i |-> 1]
          ELSE [pc |-> "exit", wake |-> 0, i |-> 1]
    /\ UNCHANGED <<now, key_gen_running, keys_queue, callers, sent>>
    /\ UNCHANGED nonRateVars

\* sleep(RATE_LIMIT) returns.
GenWake ==
    /\ key_gen_thread.pc = "sleep"
    /\ now >= key_gen_thread.wake
    /\ key_gen_thread' = [pc |-> "put", wake |-> 0, i |-> 1]
    /\ UNCHANGED <<now, key_gen_running, keys_queue, callers, sent>>
    /\ UNCHANGED nonRateVars

\* A mistaken put: the key is dropped.
QueuePutLost(q, key) == q

\* Queue.put(key) on a queue with room.
QueuePut(q, key) == Append(q, key)

\* "for key in self.keys: self.keys_queue.put(key)": one put, which blocks
\* while the queue holds maxsize = len(keys) items.
GenPut ==
    /\ key_gen_thread.pc = "put"
    /\ Len(keys_queue) < keys_count
    /\ keys_queue' = QueuePut(keys_queue, keys[key_gen_thread.i])
    /\ key_gen_thread' =
          IF key_gen_thread.i < keys_count
          THEN [key_gen_thread EXCEPT !.i = @ + 1]
          ELSE [pc |-> "while", wake |-> 0, i |-> 1]
    /\ UNCHANGED <<now, key_gen_running, callers, sent>>
    /\ UNCHANGED nonRateVars

\* A thread enters Flickr.call.
Call(c) ==
    /\ callers[c].pc = "idle"
    /\ callers' = [callers EXCEPT ![c] = [IdleCaller EXCEPT !.pc = "get"]]
    /\ UNCHANGED <<now, key_gen_running, key_gen_thread, keys_queue, sent>>
    /\ UNCHANGED nonRateVars

\* params["api_key"] = self.keys_queue.get(): blocks while the queue is empty.
CallGet(c) ==
    /\ callers[c].pc = "get"
    /\ keys_queue # << >>
    /\ callers' = [callers EXCEPT ![c].pc = "for", ![c].key = Head(keys_queue)]
    /\ keys_queue' = Tail(keys_queue)
    /\ UNCHANGED <<now, key_gen_running, key_gen_thread, sent>>
    /\ UNCHANGED nonRateVars

\* "for _ in range(0, 100)": r = self.session.get("", params=params), with
\* the key taken before the loop; after the last attempt, r (a 500 response)
\* is falsy and IOError is raised.
CallSend(c) ==
    /\ callers[c].pc = "for"
    /\ IF callers[c].attempt < MAX_ATTEMPTS
       THEN /\ Len(sent) < MaxRequests
            /\ sent' = Append(sent, [key |-> callers[c].key, at |-> now])
            /\ callers' = [callers EXCEPT ![c].pc = "response",
                                          ![c].attempt = @ + 1]
       ELSE /\ callers' = [callers EXCEPT ![c].pc = "idle", ![c].ret = "IOError"]
            /\ UNCHANGED sent
    /\ UNCHANGED <<now, key_gen_running, key_gen_thread, keys_queue>>
    /\ UNCHANGED nonRateVars

\* The response arrives: on 500 sleep(RETRY_WAIT) begins, on another failure
\* raise_for_status raises, otherwise the payload is returned.
CallResponse(c) ==
    /\ callers[c].pc = "response"
    /\ \E status \in StatusCodes :
          callers' = [callers EXCEPT ![c] =
              IF status = 500
              THEN [@ EXCEPT !.pc = "sleep", !.wake = now + RETRY_WAIT]
              ELSE IF status = 200
                   THEN [@ EXCEPT !.pc = "idle", !.ret = "json"]
                   ELSE [@ EXCEPT !.pc = "idle", !.ret = "HTTPError"]]
    /\ UNCHANGED <<now, key_gen_running, key_gen_thread, keys_queue, sent>>
    /\ UNCHANGED nonRateVars

\* sleep(RETRY_WAIT) returns and the loop goes on.
CallWake(c) ==
    /\ callers[c].pc = "sleep"
    /\ now >= callers[c].wake
    /\ callers' = [callers EXCEPT ![c].pc = "for", ![c].wake = 0]
    /\ UNCHANGED <<now, key_gen_running, key_gen_thread, keys_queue, sent>>
    /\ UNCHANGED nonRateVars

(* Threads are prompt: a thread that can take its next step without       *)
(* waiting (for the clock, for the queue, for a response) takes it before  *)
(* the clock advances, so two requests are never brought close together   *)
(* by a thread that was merely slow between two statements.                *)
Ready ==
    \/ key_gen_thread.pc = "while"
    \/ key_gen_thread.pc = "sleep" /\ now >= key_gen_thread.wake
    \/ key_gen_thread.pc = "put" /\ Len(keys_queue) < keys_count
    \/ \E c \in Callers :
          \/ callers[c].pc = "get" /\ keys_queue # << >>
          \/ callers[c].pc = "for" /\ Len(sent) < MaxRequests
          \/ callers[c].pc = "sleep" /\ now >= callers[c].wake

\* One second passes.
Tick ==
    /\ now < MaxTime
    /\ ~ Ready
    /\ now' = now + 1
    /\ UNCHANGED <<key_gen_running, key_gen_thread, keys_queue, callers, sent>>
    /\ UNCHANGED nonRateVars

NextRate ==
    \/ start_generating_keys
    \/ stop_generating_keys
    \/ GenWhile
    \/ GenWake
    \/ GenPut
    \/ Tick
    \/ \E c \in Callers :
          \/ Call(c)
          \/ CallGet(c)
          \/ CallSend(c)
          \/ CallResponse(c)
          \/ CallWake(c)

SpecRate == InitRate /\ [][NextRate]_vars

(***************************************************************************)
(* Claims about Flickr, checked under SpecRate                             *)
(***************************************************************************)
\* The requests issued in the window of RATE_LIMIT seconds beginning at t.
InWindow(t) == {n \in DOMAIN sent : t <= sent[n].at /\ sent[n].at < t + RATE_LIMIT}

\* C1: with k = len(keys) credentials, at most k requests are issued in any
\* window of RATE_LIMIT (1 second), whatever the interleaving of the callers
\* and the key generator.
C1_AtMostKPerWindow ==
    \A t \in 0..now : Cardinality(InWindow(t)) <= keys_count

\* C2: any two requests issued with the same credential, retries after a 500
\* included, are at least RATE_LIMIT apart.
C2_OneRequestPerKeyPerInterval ==
    \A m, n \in DOMAIN sent :
        (m < n /\ sent[m].key = sent[n].key) => sent[n].at - sent[m].at >= RATE_LIMIT

(***************************************************************************)
(* SpecCall: the retry loop of one Flickr.call, from the moment it has     *)
(* taken its key, to its end                                               *)
(***************************************************************************)
\* What the call ended with: the payload, or an exception and the status
\* code it carries (0: none).
Result(kind, status) == [kind |-> kind, status |-> status]

NoResult == Result("none", 0)

\* Response.__bool__ is Response.ok: raise_for_status() would not raise.
ok(status) == status < 400

\* r.raise_for_status(); return r.json()
raise_for_status_or_json(status) ==
    IF ok(status) THEN Result("json", status) ELSE Result("HTTPError", status)

\* After the loop: "if r: r.raise_for_status() else: raise IOError(...)".
\* A response that is truthy passes raise_for_status and the call returns
\* None.
after_loop(status) ==
    IF ok(status) THEN Result("None", status) ELSE Result("IOError", 0)

InitCall ==
    /\ tiles = << >>
    /\ images = {}
    /\ lastCall = NoCall
    /\ cleans = NoClean
    /\ ScanIdle
    /\ now = 0
    /\ key_gen_running = TRUE
    /\ key_gen_thread = [pc |-> "while", wake |-> 0, i |-> 1]
    /\ keys_queue = << >>
    /\ callers = << [pc |-> "for", key |-> keys[1], attempt |-> 0, wake |-> 0,
                     status |-> 0, ret |-> NoResult] >>
    /\ sent = << >>

\* "for _ in range(0, 100)": r = self.session.get("", params=params).
Attempt ==
    /\ callers[1].pc = "for"
    /\ callers[1].attempt < MAX_ATTEMPTS
    /\ sent' = Append(sent, [key |-> callers[1].key, at |-> now])
    /\ callers' = [callers EXCEPT ![1].pc = "response", ![1].attempt = @ + 1]
    /\ UNCHANGED <<now, key_gen_running, key_gen_thread, keys_queue>>
    /\ UNCHANGED nonRateVars

\* The response arrives: on 500 sleep(RETRY_WAIT) begins, otherwise the
\* call ends in raise_for_status or returns the payload.
Response ==
    /\ callers[1].pc = "response"
    /\ \E status \in StatusCodes :
          callers' = [callers EXCEPT ![1] =
              IF status = 500
              THEN [@ EXCEPT !.pc = "sleep", !.status = status,
                             !.wake = now + RETRY_WAIT]
              ELSE [@ EXCEPT !.pc = "done", !.status = status,
                             !.ret = raise_for_status_or_json(status)]]
    /\ UNCHANGED <<now, key_gen_running, key_gen_thread, keys_queue, sent>>
    /\ UNCHANGED nonRateVars

\* sleep(RETRY_WAIT) returns.
Backoff ==
    /\ callers[1].pc = "sleep"
    /\ now' = callers[1].wake
    /\ callers' = [callers EXCEPT ![1].pc = "for", ![1].wake = 0]
    /\ UNCHANGED <<key_gen_running, key_gen_thread, keys_queue, sent>>
    /\ UNCHANGED nonRateVars

\* The loop has made its 100 attempts.
Exhausted ==
    /\ callers[1].pc = "for"
    /\ callers[1].attempt = MAX_ATTEMPTS
    /\ callers' = [callers EXCEPT ![1].pc = "done",
                                  ![1].ret = after_loop(callers[1].status)]
    /\ UNCHANGED <<now, key_gen_running, key_gen_thread, keys_queue, sent>>
    /\ UNCHANGED nonRateVars

NextCall ==
    \/ Attempt
    \/ Response
    \/ Backoff
    \/ Exhausted

SpecCall == InitCall /\ [][NextCall]_vars

\* The requests of the call are the same request, RETRY_WAIT apart, at most
\* MAX_ATTEMPTS of them, each but the last answered by 500.
RetriesWellFormed ==
    /\ Len(sent) = callers[1].attempt
    /\ Len(sent) <= MAX_ATTEMPTS
    /\ \A n \in DOMAIN sent :
          /\ sent[n].key = callers[1].key
          /\ sent[n].at = (n - 1) * RETRY_WAIT

\* C17: a response 500 is followed, after RETRY_WAIT, by a retry of the same
\* request, for at most 100 attempts; any other failure ends the call at
\* once with that status; a success returns the payload; and a call that
\* has seen 100 responses 500 fails with an error that carries the
\* service's status: it never returns a result and never fails without a
\* status.
C17_RetryPolicy ==
    /\ RetriesWellFormed
    /\ callers[1].pc = "sleep" => callers[1].status = 500
    /\ callers[1].pc = "done" =>
          /\ callers[1].ret.kind \in {"json", "HTTPError"}
          /\ callers[1].ret.kind = "json" <=> callers[1].status = 200
          /\ callers[1].ret.kind = "HTTPError" =>
                /\ callers[1].ret.status = callers[1].status
                /\ callers[1].status # 200
          /\ callers[1].status # 500 => callers[1].ret.status = callers[1].status

\* The generator has been stopped and its thread has ended: no key will be
\* put in the queue any more (a Thread cannot be started twice).
GeneratorEnded == ~key_gen_running /\ key_gen_thread.pc = "exit"

\* C15: stopping the key generator does not deadlock the callers: no caller
\* is left blocked in keys_queue.get() on an empty queue that nothing will
\* fill, whether it was waiting when stop_generating_keys was called or
\* called afterwards.
C15_StopLeavesNoCallerBlocked ==
    \A c \in Callers :
        ~(callers[c].pc = "get" /\ keys_queue = << >> /\ GeneratorEnded)

(***************************************************************************)
(* scan_flickr (robbit/management/commands/scan_flickr.py)                 *)
(***************************************************************************)
(* PER_PAGE is 250 in flickr.py and MAX_SEARCH_RESULTS is PER_PAGE * 8:    *)
(* the model keeps the factor and scales the page size down.               *)
PER_PAGE == 1
MAX_SEARCH_RESULTS == PER_PAGE * 8

\* The photos of the remote service are 1..MaxPhotoId; the record of the
\* last one cannot be parsed (its coordinates or its date).
MaxPhotoId == 2

\* The levels above MAX_DEPTH at which the scan finds work: the store was
\* left by earlier scans with all tiles above depth MAX_DEPTH - ScanLevels
\* terminal.
ScanLevels == 1

\* The scan command is run at most MaxScans times.
MaxScans == 2

\* At most MaxSplits tiles are split by the scans.
MaxSplits == 1

PhotoIds == 1..MaxPhotoId

\* float(image["longitude"]), float(image["latitude"]) and
\* pendulum.parse(image["datetaken"]) succeed on the record of this photo.
Parses(photo) == photo < MaxPhotoId

\* ThreadPool(Flickr.instance().keys_count * 3)
PoolSize == keys_count * 3

Min(a, b) == IF a <= b THEN a ELSE b

\* Tile.polygon and Area.area: polygons are rectangles with sides along the
\* axes, a MultiPolygon is a set of them, and two closed rectangles
\* intersect when they share a point, boundary included (GEOS intersects).
BoxesIntersect(a, b) ==
    /\ a.c1.x <= b.c2.x /\ b.c1.x <= a.c2.x
    /\ a.c1.y <= b.c2.y /\ b.c1.y <= a.c2.y

intersects(box, multi) == \E b \in multi : BoxesIntersect(box, b)

\* The scanned Area: one small rectangle near the corner (-180, -90), across
\* the border of the tiles (MAX_DEPTH, 0, 0) and (MAX_DEPTH, 1, 0).  Offsets
\* are in units of 2^-MAX_DEPTH degrees, in which a tile of depth MAX_DEPTH
\* is 360 wide and 180 high.
AreaBox(x1, y1, x2, y2) ==
    BBox(Coords(Deg(-180) + x1, Deg(-90) + y1), Coords(Deg(-180) + x2, Deg(-90) + y2))

area == {AreaBox(300, 50, 400, 100)}

\* A mistaken test: every tile of the level is handled.
relevant_always(t) == TRUE

\* handle_level's inner handle_tile: the tile is handled if it intersects.
relevant(t) == intersects(bbox(t), area)

(* The store the scans start from.  Earlier scans split the tiles          *)
(* (d, 0, 0), d < StartDepth, and harvested their other children; the      *)
(* children of (StartDepth - 1, 0, 0) are to-probe where they meet the     *)
(* area.  Rows are numbered as bulk_create numbered them: row 1 is the     *)
(* root, rows 4d-2 .. 4d+1 are the children of (d - 1, 0, 0).              *)
StartDepth == MAX_DEPTH - ScanLevels

InitTiles ==
    LET corner(d) == [depth |-> d, x |-> 0, y |-> 0, status |-> SPLIT, parent |-> NoTile]
        cornerId(d) == IF d = 0 THEN 1 ELSE 4 * d - 2
        row(i) ==
            IF i = 1
            THEN [Tile(0, 0, 0, NoTile) EXCEPT
                    !.status = IF StartDepth = 0 THEN TO_PROBE ELSE SPLIT]
            ELSE LET d == (i - 2) \div 4 + 1
                     k == ((i - 2) % 4) + 1
                     t == children(corner(d - 1), cornerId(d - 1))[k]
                 IN  [t EXCEPT !.status =
                        IF d < StartDepth
                        THEN IF k = 1 THEN SPLIT ELSE CONTAINED
                        ELSE IF relevant(t) THEN TO_PROBE ELSE CONTAINED]
    IN  [i \in 1..(4 * StartDepth + 1) |-> row(i)]

\* The payload of flickr.photos.search: info["photos"]["total"], ["pages"]
\* and ["photo"], the list of records (a record is given by its photo id).
Info(total, pages, photo) == [total |-> total, pages |-> pages, photo |-> photo]

NoInfo == Info(0, 0, << >>)

\* What the service may answer.  Totals at the threshold and just over it; page counts
\* of one page and of more than MAX_SEARCH_RESULTS / PER_PAGE pages; pages
\* of at most PER_PAGE records.  The results of a search are sorted, here
\* by photo id: a page goes on where the page before ended, and may repeat
\* its last photo.
Totals == {MAX_SEARCH_RESULTS, MAX_SEARCH_RESULTS + 1}

PageCounts == {1, MAX_SEARCH_RESULTS \div PER_PAGE + 1}

RECURSIVE SetToSeq(_)
SetToSeq(S) ==
    IF S = {} THEN << >>
    ELSE LET m == CHOOSE a \in S : \A b \in S : a <= b
         IN  << m >> \o SetToSeq(S \ {m})

PhotoLists(seen) ==
    {SetToSeq(S) : S \in {T \in SUBSET PhotoIds :
                            /\ Cardinality(T) <= PER_PAGE
                            /\ \A a \in T, b \in seen : b <= a}}

\* The locals of one handle_tile call.
NewTask ==
    [pc |-> "search", info |-> NoInfo, seen |-> {},
     to_insert |-> << >>, existing |-> {}, rows |-> << >>,
     pending |-> [rows |-> << >>, status |-> "none"],
     fetched |-> << >>, error |-> "none"]

\* A mistaken threshold test: a tile at the threshold is split too.
over_capacity_inclusive(info) == info.total >= MAX_SEARCH_RESULTS

\* int(info["photos"]["total"]) > Flickr.MAX_SEARCH_RESULTS
over_capacity(info) == info.total > MAX_SEARCH_RESULTS

\* A mistaken page range: every page the service announces.
page_range_all(info) == info.pages

\* range(0, min(pages, int(MAX_SEARCH_RESULTS / PER_PAGE))): its length.
page_range(info) == Min(info.pages, MAX_SEARCH_RESULTS \div PER_PAGE)

\* A mistaken loop body: the photo is appended whether seen or not.
add_photo_unseen(acc, photo) ==
    [seen |-> acc.seen \cup {photo}, to_insert |-> Append(acc.to_insert, photo)]

\* "if photo_id not in seen: seen.add(photo_id); to_insert.append(photo)"
add_photo(acc, photo) ==
    IF photo \notin acc.seen
    THEN [seen |-> acc.seen \cup {photo}, to_insert |-> Append(acc.to_insert, photo)]
    ELSE acc

\* "for photo in photos["photos"]["photo"]" over one page.
RECURSIVE add_photos(_, _)
add_photos(acc, photos) ==
    IF photos = << >> THEN acc
    ELSE add_photos(add_photo(acc, Head(photos)), Tail(photos))

\* The accumulators (seen, to_insert) the loop may hold after k more turns,
\* each on a page the service may answer, from those of accs.
RECURSIVE Turns(_, _)
Turns(accs, k) ==
    IF k = 0 THEN accs
    ELSE Turns(UNION {{add_photos(acc, photo) : photo \in PhotoLists(acc.seen)} :
                      acc \in accs}, k - 1)

\* An Image row: flickr_id, and (not a column) the tile whose harvest
\* created it.
Image(flickr_id, by) == [flickr_id |-> flickr_id, by |-> by]

\* set(Image.objects.filter(flickr_id__in=seen).values_list("flickr_id"))
existing_ids(store, seen) == {i \in seen : \E r \in store : r.flickr_id = i}

\* A mistaken generator: a row for every record that is not in existing,
\* whether it parses or not.
RECURSIVE make_images_all(_, _, _)
make_images_all(to_insert, existing, by) ==
    IF to_insert = << >> THEN << >>
    ELSE LET image == Head(to_insert)
             rest == make_images_all(Tail(to_insert), existing, by)
         IN  IF image \notin existing
             THEN << Image(image, by) >> \o rest
             ELSE rest

\* make_images: the rows of the records that parse and are not in existing,
\* in the order of to_insert.
RECURSIVE make_images(_, _, _)
make_images(to_insert, existing, by) ==
    IF to_insert = << >> THEN << >>
    ELSE LET image == Head(to_insert)
             rest == make_images(Tail(to_insert), existing, by)
         IN  IF image \notin existing /\ Parses(image)
             THEN << Image(image, by) >> \o rest
             ELSE rest

\* Image.flickr_id is unique: an INSERT of rows that repeat a flickr_id of
\* the table, or one of their own, raises IntegrityError.
IntegrityError(store, rows) ==
    \/ \E n \in DOMAIN rows : \E r \in store : r.flickr_id = rows[n].flickr_id
    \/ \E m, n \in DOMAIN rows : m < n /\ rows[m].flickr_id = rows[n].flickr_id

Range(f) == {f[n] : n \in DOMAIN f}

\* Without atomic() every statement would commit on its own.
autocommit == FALSE

\* "with self.insert_lock, atomic():" the writes of the block are one
\* transaction.
atomic == TRUE

\* A mistaken filter: the tiles of the level that are not split.
query_not_split(store, level) ==
    {id \in TileIds(store) : store[id].depth = level /\ store[id].status # SPLIT}

\* Tile.objects.filter(depth=level, status=Tile.TO_PROBE)
query(store, level) ==
    {id \in TileIds(store) : store[id].depth = level /\ store[id].status = TO_PROBE}

\* .order_by("y", "x"); rows equal in both come in primary-key order.
RECURSIVE order_by_y_x(_, _)
order_by_y_x(store, ids) ==
    IF ids = {} THEN << >>
    ELSE LET before(a, b) ==
                 \/ store[a].y < store[b].y
                 \/ store[a].y = store[b].y /\ store[a].x < store[b].x
                 \/ store[a].y = store[b].y /\ store[a].x = store[b].x /\ a <= b
             first == CHOOSE a \in ids : \A b \in ids : before(a, b)
         IN  << first >> \o order_by_y_x(store, ids \ {first})

AllTerminal(store) == \A id \in TileIds(store) : store[id].status \in {CONTAINED, SPLIT}

nonScanVars == <<lastCall, now, key_gen_running, key_gen_thread, keys_queue,
                 callers, sent, cleans>>

Init ==
    /\ tiles = InitTiles
    /\ images = {}
    /\ lastCall = NoCall
    /\ cleans = NoClean
    /\ RateIdle
    /\ scan = [pc |-> "exit", level |-> 0, queue |-> << >>, n |-> 0,
               terminal |-> FALSE, outcome |-> "none", killed |-> {}]
    /\ tasks = << >>
    /\ insert_lock = NoTile

Running == DOMAIN tasks

SetTask(t, task) == [x \in Running \cup {t} |-> IF x = t THEN task ELSE tasks[x]]

DropTask(t) == [x \in Running \ {t} |-> tasks[x]]

\* The call has ended with an exception, which the pool keeps as its result.
Failed(error) == [NewTask EXCEPT !.pc = "failed", !.error = error]

\* The exception leaves handle_tile: a "with" block it crosses rolls the
\* transaction back and releases the lock.
Raise(t, error) ==
    /\ tasks' = SetTask(t, Failed(error))
    /\ insert_lock' = IF insert_lock = t THEN NoTile ELSE insert_lock

\* A mistaken range: the deepest level is left out.
levels_short == 0..(MAX_DEPTH - 1)

\* "for level in range(0, Tile.MAX_DEPTH + 1)"
levels == 0..MAX_DEPTH

\* A mistaken pool: the level ends when every tile has been handed to a
\* worker, whether the workers have returned or not.
submitted == scan.queue = << >>

\* "for _ in pool.imap_unordered(handle_tile, tiles): pass" has ended: every
\* tile of the queryset was handed to a worker and every call has returned.
exhausted == scan.queue = << >> /\ Running = {}

\* Command.handle is entered: the command is run (again); terminal records
\* whether every tile was terminal when it began.
ScanStart ==
    /\ scan.pc = "exit"
    /\ scan.n < MaxScans
    /\ scan' = [pc |-> "level", level |-> 0, queue |-> << >>, n |-> scan.n + 1,
                terminal |-> AllTerminal(tiles), outcome |-> "running",
                killed |-> {}]
    /\ UNCHANGED <<tiles, images, tasks, insert_lock>>
    /\ UNCHANGED nonScanVars

\* handle_level: the queryset of the level is evaluated and handed to
\* pool.imap_unordered.
LevelQuery ==
    /\ scan.pc = "level"
    /\ scan' = [scan EXCEPT !.pc = "pool",
                            !.queue = order_by_y_x(tiles, query(tiles, scan.level))]
    /\ UNCHANGED <<tiles, images, tasks, insert_lock>>
    /\ UNCHANGED nonScanVars

\* A worker of the pool takes the next tile: handle_level's handle_tile
\* returns at once unless the tile's polygon intersects the area.
TaskStart ==
    /\ scan.pc = "pool"
    /\ scan.queue # << >>
    /\ Cardinality(Running) < PoolSize
    /\ LET t == Head(scan.queue)
       IN  tasks' = IF relevant(tiles[t]) THEN SetTask(t, NewTask) ELSE tasks
    /\ scan' = [scan EXCEPT !.queue = Tail(@)]
    /\ UNCHANGED <<tiles, images, insert_lock>>
    /\ UNCHANGED nonScanVars

\* info = f.search(page=1, **kwargs), then the test of the total.  A search
\* is one Flickr.call: it returns the payload or raises.
Search(t) ==
    /\ scan.pc = "pool"
    /\ t \in Running
    /\ tasks[t].pc = "search"
    /\ \/ \E total \in Totals, pages \in PageCounts, photo \in PhotoLists({}) :
             LET info == Info(total, pages, photo)
             IN  /\ tasks' = SetTask(t, [tasks[t] EXCEPT
                        !.info = info, !.fetched = << 1 >>,
                        !.pc = IF over_capacity(info) THEN "need_children"
                               ELSE "pages"])
                 /\ UNCHANGED insert_lock
       \/ Raise(t, "HTTPError")
    /\ UNCHANGED <<tiles, images, scan>>
    /\ UNCHANGED nonScanVars

\* harvest = not tile.need_children(): at MAX_DEPTH it returns False and the
\* tile is harvested, otherwise bulk_create inserts the 4 children.
NeedChildren(t) ==
    /\ scan.pc = "pool"
    /\ t \in Running
    /\ tasks[t].pc = "need_children"
    /\ tiles[t].depth + 1 <= MAX_DEPTH => Len(tiles) < Len(InitTiles) + 4 * MaxSplits
    /\ IF max_depth_reached(tiles[t])
       THEN /\ tasks' = SetTask(t, [tasks[t] EXCEPT !.pc = "pages"])
            /\ UNCHANGED tiles
       ELSE /\ tiles' = tile_bulk_create(tiles, children(tiles[t], t))
            /\ tasks' = SetTask(t, [tasks[t] EXCEPT !.pc = "save"])
    /\ UNCHANGED <<images, scan, insert_lock>>
    /\ UNCHANGED nonScanVars

\* need_children: self.status = Tile.SPLIT; self.save(); return True, and
\* handle_tile returns as harvest is False.
NeedChildrenSave(t) ==
    /\ scan.pc = "pool"
    /\ t \in Running
    /\ tasks[t].pc = "save"
    /\ tiles' = tile_save(tiles, t, SPLIT)
    /\ tasks' = SetTask(t, [tasks[t] EXCEPT !.pc = "return"])
    /\ UNCHANGED <<images, scan, insert_lock>>
    /\ UNCHANGED nonScanVars

\* "for page in range(0, min(pages, ...))" as a whole: turn 0 reads info,
\* every other turn is one search of the next page, which returns a page or
\* raises; the photos not seen yet are appended.  The loop reads and writes
\* nothing but its own locals, so its turns are taken as one step.  After
\* the last turn the task goes for the lock; the records and the page count
\* of info are not read again and are forgotten.
HarvestPages(t) ==
    /\ scan.pc = "pool"
    /\ t \in Running
    /\ tasks[t].pc = "pages"
    /\ LET task == tasks[t]
           n == page_range(task.info)
           first == add_photos([seen |-> {}, to_insert |-> << >>], task.info.photo)
       IN  \/ /\ n = 0
              /\ tasks' = SetTask(t, [task EXCEPT
                      !.pc = "lock", !.info.photo = << >>, !.info.pages = 0])
           \/ /\ n > 0
              /\ \E acc \in Turns({first}, n - 1) :
                    tasks' = SetTask(t, [task EXCEPT
                        !.pc = "lock", !.seen = acc.seen, !.to_insert = acc.to_insert,
                        !.fetched = [p \in 1..n |-> p],
                        !.info.photo = << >>, !.info.pages = 0])
           \/ /\ n > 1
              /\ tasks' = SetTask(t, Failed("HTTPError"))
    /\ UNCHANGED <<tiles, images, scan, insert_lock>>
    /\ UNCHANGED nonScanVars

\* "with self.insert_lock, atomic():" the lock is acquired and the
\* transaction begins.
TxBegin(t) ==
    /\ scan.pc = "pool"
    /\ t \in Running
    /\ tasks[t].pc = "lock"
    /\ insert_lock = NoTile
    /\ insert_lock' = t
    /\ tasks' = SetTask(t, [tasks[t] EXCEPT !.pc = "existing"])
    /\ UNCHANGED <<tiles, images, scan>>
    /\ UNCHANGED nonScanVars

\* existing = set(Image.objects.filter(flickr_id__in=seen)...)
TxExisting(t) ==
    /\ scan.pc = "pool"
    /\ t \in Running
    /\ tasks[t].pc = "existing"
    /\ tasks' = SetTask(t, [tasks[t] EXCEPT
            !.existing = existing_ids(images \cup Range(tasks[t].pending.rows),
                                      tasks[t].seen),
            !.pc = "bulk_create"])
    /\ UNCHANGED <<tiles, images, scan, insert_lock>>
    /\ UNCHANGED nonScanVars

\* Image.objects.bulk_create(make_images())
TxBulkCreate(t) ==
    /\ scan.pc = "pool"
    /\ t \in Running
    /\ tasks[t].pc = "bulk_create"
    /\ LET task == tasks[t]
           rows == make_images(task.to_insert, task.existing, t)
       IN  IF IntegrityError(images \cup Range(task.pending.rows), rows)
           THEN /\ Raise(t, "IntegrityError")
                /\ UNCHANGED images
           ELSE /\ tasks' = SetTask(t, [task EXCEPT
                        !.rows = rows, !.pc = "mark_done",
                        !.pending.rows = IF atomic THEN rows ELSE << >>])
                /\ images' = IF atomic THEN images ELSE images \cup Range(rows)
                /\ UNCHANGED insert_lock
    /\ UNCHANGED <<tiles, scan>>
    /\ UNCHANGED nonScanVars

\* tile.mark_done()
TxMarkDone(t) ==
    /\ scan.pc = "pool"
    /\ t \in Running
    /\ tasks[t].pc = "mark_done"
    /\ LET status == mark_done(tiles, t)[t].status
       IN  /\ tasks' = SetTask(t, [tasks[t] EXCEPT
                   !.pc = "commit",
                   !.pending.status = IF atomic THEN status ELSE "none"])
           /\ tiles' = IF atomic THEN tiles ELSE tile_save(tiles, t, status)
    /\ UNCHANGED <<images, scan, insert_lock>>
    /\ UNCHANGED nonScanVars

\* atomic() is left: the transaction commits.
TxCommit(t) ==
    /\ scan.pc = "pool"
    /\ t \in Running
    /\ tasks[t].pc = "commit"
    /\ LET pending == tasks[t].pending
       IN  /\ images' = images \cup Range(pending.rows)
           /\ tiles' = IF pending.status = "none" THEN tiles
                       ELSE tile_save(tiles, t, pending.status)
    /\ tasks' = SetTask(t, [tasks[t] EXCEPT
            !.pc = "unlock", !.pending = [rows |-> << >>, status |-> "none"]])
    /\ UNCHANGED <<scan, insert_lock>>
    /\ UNCHANGED nonScanVars

\* insert_lock is released.
Unlock(t) ==
    /\ scan.pc = "pool"
    /\ t \in Running
    /\ tasks[t].pc = "unlock"
    /\ insert_lock' = NoTile
    /\ tasks' = SetTask(t, [tasks[t] EXCEPT !.pc = "return"])
    /\ UNCHANGED <<tiles, images, scan>>
    /\ UNCHANGED nonScanVars

\* handle_tile returns and the worker is free.
TaskReturn(t) ==
    /\ scan.pc = "pool"
    /\ t \in Running
    /\ tasks[t].pc = "return"
    /\ tasks' = DropTask(t)
    /\ UNCHANGED <<tiles, images, scan, insert_lock>>
    /\ UNCHANGED nonScanVars

\* The store fails a statement of the task (connection lost, ...): the
\* exception leaves handle_tile.
DatabaseError(t) ==
    /\ scan.pc = "pool"
    /\ t \in Running
    /\ \/ tasks[t].pc \in {"save", "existing", "bulk_create", "mark_done", "commit"}
       \/ tasks[t].pc = "need_children" /\ tiles[t].depth + 1 <= MAX_DEPTH
    /\ Raise(t, "DatabaseError")
    /\ UNCHANGED <<tiles, images, scan>>
    /\ UNCHANGED nonScanVars

\* The iteration over imap_unordered has consumed every result: the pool
\* is left and handle goes to the next level, or to its finally clause.
LevelEnd ==
    /\ scan.pc = "pool"
    /\ exhausted
    /\ scan' = IF scan.level + 1 \in levels
               THEN [scan EXCEPT !.pc = "level", !.level = @ + 1]
               ELSE [scan EXCEPT !.pc = "finally"]
    /\ UNCHANGED <<tiles, images, tasks, insert_lock>>
    /\ UNCHANGED nonScanVars

\* handle's finally clause after the last level (stop_generating_keys), and
\* the command ends.
Finally ==
    /\ scan.pc = "finally"
    /\ scan' = [scan EXCEPT !.pc = "exit", !.outcome = "completed"]
    /\ UNCHANGED <<tiles, images, tasks, insert_lock>>
    /\ UNCHANGED nonScanVars

\* The process ends with its threads wherever they are: open transactions
\* are rolled back; killed keeps where the tasks were and how many rows
\* their open transactions held.
Die(outcome) ==
    /\ scan' = [scan EXCEPT !.pc = "exit", !.outcome = outcome, !.queue = << >>,
                            !.killed = {[tile |-> t, pc |-> tasks[t].pc,
                                          rows |-> Len(tasks[t].pending.rows)] :
                                         t \in Running}]
    /\ tasks' = << >>
    /\ insert_lock' = NoTile
    /\ UNCHANGED <<tiles, images>>
    /\ UNCHANGED nonScanVars

\* The exception of a failed task is raised again in the main thread by
\* the iteration over imap_unordered: the pool is terminated, handle's
\* finally clause runs and the command ends with the error, while the
\* other workers (daemon threads) are still in their tasks.
Abort ==
    /\ scan.pc = "pool"
    /\ \E t \in Running : tasks[t].pc = "failed"
    /\ Die("failed")

\* The process is killed.
Crash ==
    /\ scan.pc \in {"level", "pool", "finally"}
    /\ Die("killed")

Next ==
    \/ ScanStart
    \/ LevelQuery
    \/ TaskStart
    \/ LevelEnd
    \/ Finally
    \/ Abort
    \/ Crash
    \/ \E t \in 1..(Len(InitTiles) + 4 * MaxSplits) :
          \/ Search(t)
          \/ NeedChildren(t)
          \/ NeedChildrenSave(t)
          \/ HarvestPages(t)
          \/ TxBegin(t)
          \/ TxExisting(t)
          \/ TxBulkCreate(t)
          \/ TxMarkDone(t)
          \/ TxCommit(t)
          \/ Unlock(t)
          \/ TaskReturn(t)
          \/ DatabaseError(t)

Spec == Init /\ [][Next]_vars

\* The steps of the threads of a scan that is running, the main thread and
\* the pool's workers: not the start of a command, and neither a failure of
\* the database nor the kill of the process.
ScanStep ==
    \/ LevelQuery
    \/ TaskStart
    \/ LevelEnd
    \/ Finally
    \/ Abort
    \/ \E t \in 1..(Len(InitTiles) + 4 * MaxSplits) :
          \/ Search(t)
          \/ NeedChildren(t)
          \/ NeedChildrenSave(t)
          \/ HarvestPages(t)
          \/ TxBegin(t)
          \/ TxExisting(t)
          \/ TxBulkCreate(t)
          \/ TxMarkDone(t)
          \/ TxCommit(t)
          \/ Unlock(t)
          \/ TaskReturn(t)

\* The scan under fair scheduling: a running scan whose threads can take a
\* step takes one, and the process is not killed.  Search(t) is Flickr.search run to its response, so the
\* fairness of this step is the arrival of tokens and of responses.
\* The command is run, again and again, and never killed; the database
\* may fail.
NextFair ==
    \/ ScanStart
    \/ ScanStep
    \/ \E t \in 1..(Len(InitTiles) + 4 * MaxSplits) : DatabaseError(t)

SpecFair == Init /\ [][NextFair]_vars /\ WF_vars(ScanStep)

(***************************************************************************)
(* Waiting for a key: the generator thread and the workers of the pool,    *)
(* with no clock.  Flickr.call is followed up to the key it takes; the     *)
(* requests it then makes are in SpecRate and SpecCall.                    *)
(***************************************************************************)
\* The threads of ThreadPool(Flickr.instance().keys_count * 3).
Workers == 1..PoolSize

InitKeys ==
    /\ tiles = << >>
    /\ images = {}
    /\ lastCall = NoCall
    /\ cleans = NoClean
    /\ ScanIdle
    /\ now = 0
    /\ key_gen_running = FALSE
    /\ key_gen_thread = [pc |-> "new", wake |-> 0, i |-> 1]
    /\ keys_queue = << >>
    /\ callers = [c \in Workers |-> IdleCaller]
    /\ sent = << >>

\* sleep(RATE_LIMIT) returns, however long it took.
GenSleep ==
    /\ key_gen_thread.pc = "sleep"
    /\ key_gen_thread' = [pc |-> "put", wake |-> 0, i |-> 1]
    /\ UNCHANGED <<now, key_gen_running, keys_queue, callers, sent>>
    /\ UNCHANGED nonRateVars

\* Flickr.call after the key is taken: the requests are made and the call
\* returns or raises; the worker is free to call again.
CallEnd(c) ==
    /\ callers[c].pc = "for"
    /\ callers' = [callers EXCEPT ![c] = IdleCaller]
    /\ UNCHANGED <<now, key_gen_running, key_gen_thread, keys_queue, sent>>
    /\ UNCHANGED nonRateVars

NextKeys ==
    \/ start_generating_keys
    \/ stop_generating_keys
    \/ GenWhile
    \/ GenSleep
    \/ GenPut
    \/ \E c \in Workers :
          \/ Call(c)
          \/ CallGet(c)
          \/ CallEnd(c)

\* Fair scheduling: the generator thread takes the step it can take, and a
\* worker waiting in Queue.get() that can again and again take a key does
\* take one (Condition.notify wakes the longest waiter first).
FairKeys ==
    /\ WF_vars(GenWhile)
    /\ WF_vars(GenSleep)
    /\ WF_vars(GenPut)
    /\ \A c \in Workers : SF_vars(CallGet(c))

SpecKeys == InitKeys /\ [][NextKeys]_vars /\ FairKeys

(***************************************************************************)
(* The validators of Tile.depth (robbit/models.py, migration 0004)         *)
(***************************************************************************)
\* Depths are tried from MaxDepthSlack below 0 to MaxDepthSlack above
\* MAX_DEPTH.
MaxDepthSlack == 3

DepthValues == (0 - MaxDepthSlack)..(MAX_DEPTH + MaxDepthSlack)

\* django.core.validators.MinValueValidator(limit_value) called on a value:
\* ValidationError is raised when value < limit_value.
MinValueValidator(limit_value, value) == ~(value < limit_value)

\* validators=[MinValueValidator(0, ...), MinValueValidator(MAX_DEPTH, ...)]:
\* the limit values of the two validators of the field, both of them
\* MinValueValidator.
depth_validators == << 0, MAX_DEPTH >>

\* Field.run_validators(value): the value is accepted when no validator of
\* the field raises.
run_validators(value) ==
    \A i \in 1..Len(depth_validators) :
        MinValueValidator(depth_validators[i], value)

\* A Tile built with any depth, not yet validated.
InitDepth ==
    /\ RateIdle
    /\ ScanIdle
    /\ \E depth \in DepthValues, x \in 0..MaxCoord, y \in 0..MaxCoord :
          tiles = << Tile(depth, x, y, NoTile) >>
    /\ lastCall = NoCall
    /\ images = {}
    /\ cleans = NoClean

\* The depth of the tile is validated (Model.full_clean, clean_fields):
\* lastCall.ret tells whether it was accepted.
ValidateDepth ==
    /\ lastCall.id = NoTile
    /\ lastCall' = [id |-> 1, ret |-> run_validators(tiles[1].depth)]
    /\ UNCHANGED <<tiles, images, cleans>>
    /\ UNCHANGED rateVars
    /\ UNCHANGED scanVars

NextDepth == ValidateDepth

SpecDepth == InitDepth /\ [][NextDepth]_vars

\* C23: the validators of Tile.depth accept a depth if and only if it is
\* in 0..MAX_DEPTH.
C23_DepthValidators ==
    lastCall.id # NoTile
        => (lastCall.ret <=> tiles[lastCall.id].depth \in 0..MAX_DEPTH)

(***************************************************************************)
(* clean_tiles (robbit/management/commands/clean_tiles.py)                 *)
(***************************************************************************)
\* The stores clean_tiles is run on have at most MaxCleanRows tiles, and it
\* is run at most MaxCleans times.
MaxCleanRows == 3
MaxCleans == 2

\* Tile.objects.exclude(depth=0).delete(): the rows of depth 0 are left.
\* (The ids of a store are the positions of its rows; the rows left have no
\* parent, and no other table refers to a tile.)
exclude_depth_0_delete(store) == SelectSeq(store, LAMBDA row : row.depth = 0)

\* Tile.objects.update(status=...)
update_status(store, status) ==
    [id \in DOMAIN store |-> [store[id] EXCEPT !.status = status]]

\* A mistaken reset: the statuses are left as they are.
clean_tiles_delete_only(store) == exclude_depth_0_delete(store)

\* clean_tiles' handle: the delete, then the update.
clean_tiles(store) == update_status(exclude_depth_0_delete(store), TO_PROBE)

\* The rows of the stores of SpecClean: a tile of depth 0, or a child of the
\* first row, in any status.
CleanRows ==
    {[Tile(0, 0, 0, NoTile) EXCEPT !.status = st] : st \in STATUSES}
    \cup {[Tile(1, x, 0, 1) EXCEPT !.status = st] : x \in 0..1, st \in STATUSES}

\* Any store that begins with a tile of depth 0, or the empty one, and no
\* image or one.
InitClean ==
    /\ \E n \in 0..MaxCleanRows : \E store \in [1..n -> CleanRows] :
          /\ n > 0 => store[1].depth = 0
          /\ tiles = store
    /\ images \in {{}, {Image(1, 1)}}
    /\ cleans = NoClean
    /\ lastCall = NoCall
    /\ RateIdle
    /\ ScanIdle

\* The clean_tiles command is run.
CleanTiles ==
    /\ cleans.n < MaxCleans
    /\ tiles' = clean_tiles(tiles)
    /\ cleans' = [n |-> cleans.n + 1,
                  first |-> IF cleans.n = 0 THEN tiles ELSE cleans.first]
    /\ UNCHANGED <<images, lastCall>>
    /\ UNCHANGED rateVars
    /\ UNCHANGED scanVars

NextClean == CleanTiles

SpecClean == InitClean /\ [][NextClean]_vars

\* C16: clean_tiles, run on any store, leaves no tile of depth > 0, leaves
\* every tile of depth 0, and each of them to-probe, and leaves the images
\* as they were; run a second time it changes nothing.
C16_CleanTilesResets ==
    [][cleans' # cleans =>
          /\ \A id \in TileIds(tiles') : tiles'[id].depth = 0
          /\ \A id \in TileIds(tiles') : tiles'[id].status = TO_PROBE
          /\ Len(tiles') = Cardinality({id \in TileIds(tiles) : tiles[id].depth = 0})
          /\ images' = images
          /\ cleans.n > 0 => tiles' = tiles]_vars

\* clean_tiles has been run twice on a store that held an image, a tile of
\* depth 0 that was not to-probe and a deeper tile: the image is there, one
\* to-probe tile of depth 0 is left.
C16_Witness ==
    /\ cleans.n = 2
    /\ \E id \in TileIds(cleans.first) : cleans.first[id].depth > 0
    /\ \E id \in TileIds(cleans.first) :
          cleans.first[id].depth = 0 /\ cleans.first[id].status # TO_PROBE
    /\ images # {}
    /\ tiles = << Tile(0, 0, 0, NoTile) >>

(***************************************************************************)
(* Properties of the scan.                                                 *)
(***************************************************************************)

\* The images in the store that the harvest of tile t inserted.
ImagesBy(t) == {r \in images : r.by = t}

\* The task has inserted its rows (bulk_create has returned).
Inserted(task) == task.pc \in {"mark_done", "commit", "unlock", "return"}

\* C3: in every reachable state, the state left by a crash or a failure
\* included, the images of a harvest and the change of its tile to contained
\* land together or not at all: a tile that is to-probe has no image of its
\* harvest in the store, and the tile of a harvest that has inserted its
\* rows is contained only if all of them are in the store.
C3_ImagesAndStatusTogether ==
    /\ \A t \in TileIds(tiles) : tiles[t].status = TO_PROBE => ImagesBy(t) = {}
    /\ \A t \in Running :
          Inserted(tasks[t]) /\ tiles[t].status = CONTAINED
              => Range(tasks[t].rows) \subseteq images

\* The process was killed while the transaction of a harvest held rows and
\* the status change: none of them is in the store, the tile is to-probe.
C3_Witness ==
    /\ scan.pc = "exit"
    /\ scan.outcome = "killed"
    /\ \E k \in scan.killed :
          /\ k.pc = "commit"
          /\ k.rows > 0
          /\ tiles[k.tile].status = TO_PROBE
          /\ ImagesBy(k.tile) = {}

\* C4: whatever the pool's workers harvest, concurrently or in separate
\* scans, no two images of the store have the same flickr_id, and no harvest
\* runs into the unique index: the seen set and the existence check under
\* the lock have removed every repeated photo before the insert.
C4_UniqueFlickrId ==
    /\ \A r1, r2 \in images : r1.flickr_id = r2.flickr_id => r1 = r2
    /\ \A t \in Running : tasks[t].error # "IntegrityError"

\* A harvest found a photo of its results in the store, inserted there by
\* the harvest of another tile that ran in the pool at the same time, and
\* left it out of its insert.
C4_Witness ==
    \E t \in Running : \E r \in images :
        /\ tasks[t].pc = "commit"
        /\ r.by # t
        /\ r.by \in Running
        /\ r.flickr_id \in tasks[t].existing
        /\ r.flickr_id \in Range(tasks[t].to_insert)
        /\ \A n \in DOMAIN tasks[t].rows : tasks[t].rows[n].flickr_id # r.flickr_id

\* The task knows the total of page 1.
Probed(task) == task.pc \notin {"search", "failed"}

\* C5: a tile whose total of page 1 is at most MAX_SEARCH_RESULTS is
\* harvested directly: need_children is never called on it, no step adds a
\* child of it, its status never becomes split, and it is contained when
\* handle_tile returns.
C5_BelowThresholdHarvested ==
    /\ [](\A t \in Running :
            Probed(tasks[t]) /\ tasks[t].info.total <= MAX_SEARCH_RESULTS
                => /\ tasks[t].pc \notin {"need_children", "save"}
                   /\ tiles[t].status # SPLIT
                   /\ tasks[t].pc = "return" => tiles[t].status = CONTAINED)
    /\ [][\A t \in Running :
            Probed(tasks[t]) /\ tasks[t].info.total <= MAX_SEARCH_RESULTS
                => ChildrenOf(tiles', t) = ChildrenOf(tiles, t)]_vars

\* A tile above MAX_DEPTH with a total at the threshold has been harvested.
C5_Witness ==
    \E t \in Running :
        /\ tasks[t].pc = "return"
        /\ tasks[t].info.total = MAX_SEARCH_RESULTS
        /\ tiles[t].depth < MAX_DEPTH
        /\ tiles[t].status = CONTAINED
        /\ ChildrenOf(tiles, t) = {}

\* The task knows that the total of page 1 exceeds MAX_SEARCH_RESULTS.
Over(task) == Probed(task) /\ task.info.total > MAX_SEARCH_RESULTS

\* C6: a tile whose total exceeds MAX_SEARCH_RESULTS is split if its depth is
\* below MAX_DEPTH: need_children adds 4 children of it, no page after page 1
\* is fetched, no image is inserted for it, and it is split when handle_tile
\* returns.  At MAX_DEPTH it is harvested: pages 1, 2, ... are fetched in
\* this order, at most MAX_SEARCH_RESULTS / PER_PAGE of them, at most
\* MAX_SEARCH_RESULTS records are retained, all different, and it is
\* contained when handle_tile returns.
C6_AboveThreshold ==
    /\ [](\A t \in Running :
            Over(tasks[t]) /\ tiles[t].depth < MAX_DEPTH
                => /\ tasks[t].pc \in {"need_children", "save", "return"}
                   /\ tasks[t].fetched = << 1 >>
                   /\ tasks[t].rows = << >>
                   /\ ImagesBy(t) = {}
                   /\ tasks[t].pc = "return" => tiles[t].status = SPLIT)
    /\ [](\A t \in Running :
            Over(tasks[t]) /\ tiles[t].depth = MAX_DEPTH
                => /\ tasks[t].pc # "save"
                   /\ tiles[t].status # SPLIT
                   /\ Len(tasks[t].fetched) <= MAX_SEARCH_RESULTS \div PER_PAGE
                   /\ \A n \in DOMAIN tasks[t].fetched : tasks[t].fetched[n] = n
                   /\ Len(tasks[t].to_insert) <= MAX_SEARCH_RESULTS
                   /\ \A m, n \in DOMAIN tasks[t].to_insert :
                         tasks[t].to_insert[m] = tasks[t].to_insert[n] => m = n
                   /\ tasks[t].pc = "return" => tiles[t].status = CONTAINED)
    /\ [][\A t \in Running :
            Over(tasks[t]) /\ tasks[t].pc = "need_children" /\ t \in DOMAIN tasks'
              /\ tasks'[t].pc = "save"
                => /\ Len(tiles') = Len(tiles) + 4
                   /\ \A id \in (Len(tiles) + 1)..Len(tiles') :
                         /\ tiles'[id].parent = t
                         /\ tiles'[id].depth = tiles[t].depth + 1]_vars

\* A tile over the threshold was split, and one of its children, at
\* MAX_DEPTH and over the threshold too, has been harvested from as many
\* pages as the cap allows.
C6_Witness ==
    \E t \in Running :
        /\ tasks[t].pc = "return"
        /\ Over(tasks[t])
        /\ tiles[t].depth = MAX_DEPTH
        /\ Len(tasks[t].fetched) = MAX_SEARCH_RESULTS \div PER_PAGE
        /\ tasks[t].rows # << >>
        /\ tiles[t].status = CONTAINED
        /\ tiles[tiles[t].parent].status = SPLIT
        /\ Cardinality(ChildrenOf(tiles, tiles[t].parent)) = 4

\* C10: a scan that begins on a store in which every tile is contained or
\* split handles no tile, so that it makes no search request, and writes
\* neither tiles nor images: the store stays as it was.
C10_TerminalScanIdempotent ==
    [][scan.pc # "exit" /\ scan.terminal
          => /\ tiles' = tiles
             /\ images' = images
             /\ tasks = << >>
             /\ tasks' = << >>]_vars

\* A scan that began on a store of terminal tiles has gone through its
\* levels and ended.
C10_Witness ==
    /\ scan.pc = "exit"
    /\ scan.outcome = "completed"
    /\ scan.terminal
    /\ scan.n > 1

\* The tile meets the scanned area (the geometry of handle_level's test).
MeetsArea(t) == \E b \in area : BoxesIntersect(bbox(t), b)

\* C11: when a scan has run to completion without failure, no tile that
\* meets the area is to-probe, at any depth: every one is contained or split.
C11_CompletedScanTerminal ==
    scan.pc = "exit" /\ scan.outcome = "completed"
        => \A t \in TileIds(tiles) :
              MeetsArea(tiles[t]) => tiles[t].status \in {CONTAINED, SPLIT}

\* A scan has completed in which a tile was split and its children that
\* meet the area, at MAX_DEPTH, were harvested.
C11_Witness ==
    /\ scan.pc = "exit"
    /\ scan.outcome = "completed"
    /\ \E t \in TileIds(tiles) :
          /\ tiles[t].depth = MAX_DEPTH
          /\ MeetsArea(tiles[t])
          /\ tiles[t].status = CONTAINED
          /\ tiles[tiles[t].parent].status = SPLIT

\* C12: the failure of one handle_tile call is isolated: the command does
\* not end with that error before its last level, and every other tile of
\* the failed tile's level that meets the area has been brought to contained
\* or split.
C12_FailureIsolated ==
    scan.pc = "exit" /\ scan.outcome = "failed"
        => /\ scan.level = MAX_DEPTH
           /\ \A k \in scan.killed : \A t \in TileIds(tiles) :
                 /\ k.pc = "failed"
                 /\ t # k.tile
                 /\ tiles[t].depth = tiles[k.tile].depth
                 /\ MeetsArea(tiles[t])
                 => tiles[t].status \in {CONTAINED, SPLIT}

\* C13: the levels are strictly ordered: a handle_tile call runs only while
\* its level's pool is open, and every running call is on a tile of the
\* scan's current level, so that no tile of depth N + 1 (a child just
\* created by a split in particular) is processed while a call of depth N
\* has not returned.
C13_LevelsOrdered ==
    /\ Running # {} => scan.pc = "pool"
    /\ \A t \in Running : tiles[t].depth = scan.level

\* A split has created children that meet the area, one level deeper, and
\* the splitting call has not returned yet.
C13_Witness ==
    \E t \in Running :
        /\ tasks[t].pc \in {"save", "return"}
        /\ tiles[t].depth < MAX_DEPTH
        /\ \E c \in ChildrenOf(tiles, t) :
              MeetsArea(tiles[c]) /\ tiles[c].status = TO_PROBE

\* The photos a harvest has to insert: those of its results that are well
\* formed and were not in the store.
WellFormedNew(task) == {p \in Range(task.to_insert) : Parses(p) /\ p \notin task.existing}

\* C14: a malformed record among the results of a harvested tile does not
\* abort the tile: the rows inserted are exactly the well-formed records
\* that were not stored yet, each once and for this tile, the call goes on
\* without an error and the tile is contained when it returns.
C14_MalformedSkipped ==
    \A t \in Running :
        Inserted(tasks[t]) /\ ~(Over(tasks[t]) /\ tiles[t].depth < MAX_DEPTH)
            => /\ {r.flickr_id : r \in Range(tasks[t].rows)} = WellFormedNew(tasks[t])
               /\ Len(tasks[t].rows) = Cardinality(WellFormedNew(tasks[t]))
               /\ \A n \in DOMAIN tasks[t].rows : tasks[t].rows[n].by = t
               /\ tasks[t].error = "none"
               /\ tasks[t].pc = "return" => /\ tiles[t].status = CONTAINED
                                            /\ Range(tasks[t].rows) \subseteq images

\* A harvest whose results held a malformed record and a well-formed one has
\* inserted the well-formed one alone, and its tile is contained.
C14_Witness ==
    \E t \in Running :
        /\ tasks[t].pc = "return"
        /\ \E p \in Range(tasks[t].to_insert) : ~Parses(p)
        /\ Len(tasks[t].rows) = Len(tasks[t].to_insert) - 1
        /\ tasks[t].rows # << >>
        /\ Range(tasks[t].rows) \subseteq images
        /\ tiles[t].status = CONTAINED

\* C18: need_children is atomic: a tile has children if and only if it is
\* split, and a split tile has its 4 children; in particular in the store
\* that a scan leaves behind, however it ended.
C18_ChildrenIffSplit ==
    scan.pc = "exit"
        => \A t \in TileIds(tiles) :
              /\ ChildrenOf(tiles, t) # {} <=> tiles[t].status = SPLIT
              /\ tiles[t].status = SPLIT => Cardinality(ChildrenOf(tiles, t)) >= 4

\* C20: a tile that does not meet the scanned area is left untouched by the
\* scan: no handle_tile call runs on it (so no request is made for its
\* bbox), no step changes its row, and no step gives it a child: a step that
\* writes the Tile table changes rows of tiles that meet the area and adds
\* children of such tiles only.
C20_OffAreaUntouched ==
    /\ [](\A t \in Running : MeetsArea(tiles[t]))
    /\ [][tiles' # tiles =>
            /\ Len(tiles') >= Len(tiles)
            /\ \A id \in TileIds(tiles') :
                  IF id <= Len(tiles)
                  THEN tiles'[id] # tiles[id] => MeetsArea(tiles[id])
                  ELSE MeetsArea(tiles[tiles'[id].parent])]_vars

\* The pool of a level has taken every tile of its queryset, among them a
\* to-probe tile that does not meet the area: it is to-probe still and has
\* no child, while a call runs on a tile of the level that meets the area.
C20_Witness ==
    /\ scan.pc = "pool"
    /\ scan.queue = << >>
    /\ Running # {}
    /\ \E t \in TileIds(tiles) :
          /\ tiles[t].depth = scan.level
          /\ ~MeetsArea(tiles[t])
          /\ tiles[t].status = TO_PROBE
          /\ ChildrenOf(tiles, t) = {}

\* The bound MaxSplits on the number of splits is met: a worker that is
\* about to split a tile above MAX_DEPTH is held there.
SplitsCapped ==
    \E t \in Running :
        /\ tasks[t].pc = "need_children"
        /\ ~max_depth_reached(tiles[t])
        /\ Len(tiles) >= Len(InitTiles) + 4 * MaxSplits

\* C21: no tile is ever deeper than MAX_DEPTH, a tile at MAX_DEPTH is never
\* split even when its search reports more than the threshold, the scan
\* never runs a level beyond MAX_DEPTH, and under fair scheduling every
\* scan that has begun comes to its end (unless the bound on splits holds
\* a worker back).
C21_ScanTerminates ==
    /\ [](\A t \in TileIds(tiles) :
            /\ tiles[t].depth \in 0..MAX_DEPTH
            /\ tiles[t].depth = MAX_DEPTH => tiles[t].status # SPLIT)
    /\ [](scan.pc \notin {"none", "exit"} => scan.level \in 0..MAX_DEPTH)
    /\ [](scan.pc \notin {"none", "exit"}
            => <>(scan.pc = "exit" \/ SplitsCapped))

\* The last level of a scan, MAX_DEPTH, is over and the command is about to
\* end: a tile was split on the way, and one of its children, at MAX_DEPTH,
\* was harvested instead of being split again.
C21_Witness ==
    /\ scan.pc = "finally"
    /\ scan.level = MAX_DEPTH
    /\ ~SplitsCapped
    /\ \E t \in TileIds(tiles) :
          /\ tiles[t].depth = MAX_DEPTH
          /\ tiles[t].status = CONTAINED
          /\ tiles[tiles[t].parent].status = SPLIT
          /\ Cardinality(ImagesBy(t)) >= 1

====
